---- MODULE Spec2Model ----
(***************************************************************************)
(* A model of the stack calculator in src/src/main.rs: the evaluator      *)
(* `parse`, the formatter `Res::render`, the one-shot path of `main` and   *)
(* the interactive loop `run_app`.                                         *)
(*                                                                         *)
(* Text is a sequence of one-character strings, so that tokenising,        *)
(* literal parsing and rendering are computed character by character.      *)
(* The machine integer is a two's-complement integer of IntBits bits (the  *)
(* program's i64, scaled down so that its limits are reachable).           *)
(***************************************************************************)
EXTENDS Integers, Sequences, FiniteSets, TLC

\* ---------------------------------------------------------------- bounds

\* Width of the machine integer standing for i64.
IntBits == 8
\* Most command-line arguments of a one-shot run.
MaxArgs == 3
\* Most characters the interactive input buffer holds.
MaxBuf == 3

\* size_of::<i64>() in bytes: a Vec<i64> holds at most isize::MAX / 8 elements.
ElemBytes == 8

I64_MIN == -(2 ^ (IntBits - 1))
I64_MAX == (2 ^ (IntBits - 1)) - 1
VecCap == I64_MAX \div ElemBytes

\* ------------------------------------------------------------------ text

\* The one non-ASCII character of the model (a multi-byte character).
NonAsciiChar == "U+00E9"

Whitespace == {" ", "\t", "\n"}

\* A variant of is_ascii that lets every token through.
is_ascii_always(x) == TRUE

\* str::is_ascii
is_ascii(x) == \A k \in 1..Len(x) : x[k] # NonAsciiChar

DigitChars == <<"0", "1", "2", "3", "4", "5", "6", "7", "8", "9",
                "a", "b", "c", "d", "e", "f">>
UpperHex == <<"A", "B", "C", "D", "E", "F">>

\* char::to_digit(radix): the digit's value, or -1 when c is no digit of the radix.
to_digit(c, radix) ==
    IF \E v \in 0..(radix - 1) : DigitChars[v + 1] = c
    THEN CHOOSE v \in 0..(radix - 1) : DigitChars[v + 1] = c
    ELSE IF radix = 16 /\ \E v \in 1..6 : UpperHex[v] = c
    THEN 9 + (CHOOSE v \in 1..6 : UpperHex[v] = c)
    ELSE -1

\* The checked accumulation of from_str_radix: every step stays inside i64 or
\* the parse fails (ok = FALSE).
RECURSIVE accumulate(_, _, _, _, _)
accumulate(digits, k, radix, neg, acc) ==
    IF k > Len(digits) THEN [ok |-> TRUE, val |-> acc]
    ELSE LET d == to_digit(digits[k], radix)
             nxt == IF neg THEN acc * radix - d ELSE acc * radix + d
         IN IF d < 0 \/ nxt < I64_MIN \/ nxt > I64_MAX
            THEN [ok |-> FALSE, val |-> 0]
            ELSE accumulate(digits, k + 1, radix, neg, nxt)

\* i64::from_str_radix (str::parse::<i64> is radix 10): an optional sign, then
\* at least one digit.
from_str_radix(src, radix) ==
    IF Len(src) = 0 THEN [ok |-> FALSE, val |-> 0]
    ELSE LET signed == src[1] \in {"+", "-"}
             digits == IF signed THEN Tail(src) ELSE src
         IN IF Len(digits) = 0 THEN [ok |-> FALSE, val |-> 0]
            ELSE accumulate(digits, 1, radix, src[1] = "-", 0)

\* str::strip_prefix("0x")
has_0x_prefix(x) == Len(x) >= 2 /\ x[1] = "0" /\ x[2] = "x"

\* The digits of a natural number in the radix, most significant first.
RECURSIVE digits_of(_, _)
digits_of(n, radix) ==
    IF n < radix THEN <<DigitChars[n + 1]>>
    ELSE Append(digits_of(n \div radix, radix), DigitChars[(n % radix) + 1])

\* format!("{} ", x)
fmt_dec(x) ==
    (IF x < 0 THEN <<"-">> \o digits_of(-x, 10) ELSE digits_of(x, 10)) \o <<" ">>

\* A variant of fmt_hex without the 0x prefix, as "{:x} " would print.
fmt_hex_no_prefix(x) == digits_of(x % (2 ^ IntBits), 16) \o <<" ">>

\* format!("{:#x} ", x): the two's-complement bit pattern of x in hexadecimal.
fmt_hex(x) ==
    <<"0", "x">> \o digits_of(x % (2 ^ IntBits), 16) \o <<" ">>

\* str::split_whitespace, from position k with the token `cur` under way.
RECURSIVE split_from(_, _, _)
split_from(s, k, cur) ==
    LET done == IF cur = <<>> THEN <<>> ELSE <<cur>>
    IN IF k > Len(s) THEN done
       ELSE IF s[k] \in Whitespace THEN done \o split_from(s, k + 1, <<>>)
       ELSE split_from(s, k + 1, Append(cur, s[k]))

split_whitespace(s) == split_from(s, 1, <<>>)

\* [String]::join(" ")
RECURSIVE join(_)
join(args) ==
    IF Len(args) = 0 THEN <<>>
    ELSE IF Len(args) = 1 THEN args[1]
    ELSE args[1] \o <<" ">> \o join(Tail(args))

\* ------------------------------------------------------------ arithmetic

\* The value a wrapping i64 operation keeps of the mathematical result v.
wrap(v) == ((v - I64_MIN) % (2 ^ IntBits)) + I64_MIN

\* Division truncating toward zero.
trunc_div(a, b) ==
    LET q == (IF a < 0 THEN -a ELSE a) \div (IF b < 0 THEN -b ELSE b)
    IN IF (a < 0) = (b < 0) THEN q ELSE -q

\* operator(op): the registry, by name of the operation; "none" for None.
operator(op) ==
    IF op \in {<<"p">>, <<"+">>} THEN "add"
    ELSE IF op \in {<<"m">>, <<"*">>} THEN "mul"
    ELSE IF op = <<"d">> THEN "div"
    ELSE "none"

\* An overflowing + or * panics in a build with overflow checks and wraps in one
\* without; a division by zero, and i64::MIN / -1, panic in every build.
apply(op, l, r, checks) ==
    IF op = "div"
    THEN IF r = 0 \/ (l = I64_MIN /\ r = -1)
         THEN [ok |-> FALSE, val |-> 0]
         ELSE [ok |-> TRUE, val |-> trunc_div(l, r)]
    ELSE LET v == IF op = "add" THEN l + r ELSE l * r
         IN IF v >= I64_MIN /\ v <= I64_MAX THEN [ok |-> TRUE, val |-> v]
            ELSE IF checks THEN [ok |-> FALSE, val |-> 0]
            ELSE [ok |-> TRUE, val |-> wrap(v)]

\* Iterator::reduce over stack[k..] with accumulator acc.
RECURSIVE reduce_from(_, _, _, _, _)
reduce_from(op, acc, stack, k, checks) ==
    IF k > Len(stack) THEN [ok |-> TRUE, val |-> acc]
    ELSE LET r == apply(op, acc, stack[k], checks)
         IN IF r.ok THEN reduce_from(op, r.val, stack, k + 1, checks) ELSE r

\* stack.iter().copied().reduce(op).unwrap(): the unwrap panics on an empty stack.
reduce(op, stack, checks) ==
    IF Len(stack) = 0 THEN [ok |-> FALSE, val |-> 0]
    ELSE reduce_from(op, stack[1], stack, 2, checks)

\* -------------------------------------------------------------- messages

None == <<>>
Some(v) == <<v>>

MsgIota == <<"i", " ", "n", "e", "e", "d", "s", " ", "a", " ", "n", "u", "m", "b", "e", "r">>
MsgFold == <<"/", "<", "o", "p", ">">>
MsgParse(x) ==
    <<"c", "o", "u", "l", "d", "n", "'", "t", " ", "p", "a", "r", "s", "e", " ", "'">>
        \o x \o <<"'">>

\* ------------------------------------------------------------- evaluator

\* Res::default(): an empty stack, no error, IntFormat::Dec.
DefaultRes == [stack |-> <<>>, err |-> None, int_format |-> "Dec"]

\* The locals of parse at entry: stack, err, int_format (and no fault so far).
parse_locals == [stack |-> <<>>, err |-> None, int_format |-> "Dec", fault |-> FALSE]

\* A variant of record_error that keeps the first error of the pass.
record_error_keep_first(old, msg) == IF old = None THEN Some(msg) ELSE old

\* err = Some(msg): the assignment replaces whatever err held.
record_error(old, msg) == Some(msg)

\* The panic of an unwrap, an arithmetic fault or a capacity overflow: the pass
\* stops where it is.
panicked(r) == [r EXCEPT !.fault = TRUE]

\* A variant of push_literal that puts the literal under the stack.
push_literal_front(r, num, hex) ==
    [r EXCEPT !.stack = <<num>> \o @,
              !.int_format = IF hex THEN "Hex" ELSE @]

\* stack.push(num) of a literal; a hex literal also sets the format.
push_literal(r, num, hex) ==
    [r EXCEPT !.stack = Append(@, num),
              !.int_format = IF hex THEN "Hex" ELSE @]

\* 1..=count as a sequence.
iota_range(count) == [k \in 1..(IF count < 1 THEN 0 ELSE count) |-> k]

\* "i": pop the count and extend the stack by 1..=count; extend reserves room
\* for count more elements first, which panics beyond the capacity of a Vec.
iota(r) ==
    IF Len(r.stack) = 0 THEN [r EXCEPT !.err = record_error(@, MsgIota)]
    ELSE LET count == r.stack[Len(r.stack)]
             below == SubSeq(r.stack, 1, Len(r.stack) - 1)
         IN IF count >= 1 /\ Len(below) + count > VecCap
            THEN panicked([r EXCEPT !.stack = below])
            ELSE [r EXCEPT !.stack = below \o iota_range(count)]

\* "/<op>": replace the stack by its reduction under the operator.
fold(r, rest, checks) ==
    IF operator(rest) = "none" THEN [r EXCEPT !.err = record_error(@, MsgFold)]
    ELSE LET res == reduce(operator(rest), r.stack, checks)
         IN IF res.ok THEN [r EXCEPT !.stack = <<res.val>>] ELSE panicked(r)

\* A variant of directive in which ".d" does not bring the format back to Dec.
directive_without_d(r, rest) ==
    IF rest = <<"h">> THEN [r EXCEPT !.int_format = "Hex"] ELSE r

\* ".h" and ".d"; any other suffix does nothing.
directive(r, rest) ==
    IF rest = <<"h">> THEN [r EXCEPT !.int_format = "Hex"]
    ELSE IF rest = <<"d">> THEN [r EXCEPT !.int_format = "Dec"]
    ELSE r

\* The let-chain of the binary operator: operator(head), then stack.pop() for a,
\* then stack.pop() for b; each pop that ran stays done when a later one fails.
binary(r, head, x, checks) ==
    LET n == Len(r.stack)
    IN IF operator(head) = "none"
       THEN [r EXCEPT !.err = record_error(@, MsgParse(x))]
       ELSE IF n = 0
       THEN [r EXCEPT !.err = record_error(@, MsgParse(x))]
       ELSE IF n = 1
       THEN [r EXCEPT !.stack = <<>>, !.err = record_error(@, MsgParse(x))]
       ELSE LET a == r.stack[n]
                b == r.stack[n - 1]
                res == apply(operator(head), b, a, checks)
                popped == SubSeq(r.stack, 1, n - 2)
            IN IF res.ok THEN [r EXCEPT !.stack = Append(popped, res.val)]
               ELSE panicked([r EXCEPT !.stack = popped])

\* One iteration of the loop of parse, on token x.
step_token(r, x, checks) ==
    IF ~is_ascii(x) THEN r
    ELSE IF has_0x_prefix(x) /\ from_str_radix(SubSeq(x, 3, Len(x)), 16).ok
    THEN push_literal(r, from_str_radix(SubSeq(x, 3, Len(x)), 16).val, TRUE)
    ELSE IF from_str_radix(x, 10).ok
    THEN push_literal(r, from_str_radix(x, 10).val, FALSE)
    ELSE IF Len(x) < 1 THEN r
    ELSE LET head == <<x[1]>>
             rest == Tail(x)
         IN IF head = <<"i">> THEN iota(r)
            ELSE IF head = <<"/">> THEN fold(r, rest, checks)
            ELSE IF head = <<".">> THEN directive(r, rest)
            ELSE binary(r, head, x, checks)

\* Res { stack, err, int_format }
make_res(r) == [stack |-> r.stack, err |-> r.err, int_format |-> r.int_format]

\* Res::render
RECURSIVE render_from(_, _, _)
render_from(stack, k, int_format) ==
    IF k > Len(stack) THEN <<>>
    ELSE (IF int_format = "Dec" THEN fmt_dec(stack[k]) ELSE fmt_hex(stack[k]))
             \o render_from(stack, k + 1, int_format)

render(res) == render_from(res.stack, 1, res.int_format)

\* ----------------------------------------------------------------- state

VARIABLES
    argv,             \* std::env::args().skip(1): the command-line arguments
    overflow_checks,  \* whether the build panics on an overflowing + or *
    pc,               \* where the process is: main, parse, draw, read, restore, exit
    status,           \* running, or how the process ended: ok, err, panic
    caller,           \* who called parse: main (line 140) or run_app (line 192)
    inp,              \* parse: its argument
    todo,             \* parse: the tokens split_whitespace has yet to yield
    visited,          \* parse: the tokens the loop body has run on, in order
    loc,              \* parse: stack, err, int_format (and the fault that stopped it)
    input,            \* S.input: the text of the input buffer
    output,           \* S.output: the Res shown
    frame,            \* the last frame drawn by ui: error line, output line, input line
    inserted,         \* the last line insert_before put above the viewport
    stdout,           \* the lines println! wrote
    raw_mode          \* whether the terminal is in raw mode

vars == <<argv, overflow_checks, pc, status, caller, inp, todo, visited, loc,
          input, output, frame, inserted, stdout, raw_mode>>

\* The arguments a one-shot run is given: literals, operators, folds, directives,
\* iota, an unknown word and a non-ASCII word.
ArgVocab ==
    { <<"0">>, <<"3">>, <<"-", "1">>, <<"0", "x", "7", "f">>,
      <<"p">>, <<"d">>, <<"i">>,
      <<"/", "p">>, <<"/", "d">>, <<"/", "x">>,
      <<".", "h">>, <<".", "d">>, <<".", "x">>,
      <<"f", "o", "o">>, <<NonAsciiChar>> }

\* The characters a key press can put into the input buffer.
KeyChars == {"3", "p", "/", " ", ".", "h"}

ArgLists == UNION { [1..n -> ArgVocab] : n \in 0..MaxArgs }

NoFrame == [err |-> None, out |-> <<>>, input |-> <<>>]

Init ==
    /\ argv \in ArgLists
    /\ overflow_checks \in BOOLEAN
    /\ pc = "main"
    /\ status = "running"
    /\ caller = "main"
    /\ inp = <<>>
    /\ todo = <<>>
    /\ visited = <<>>
    /\ loc = parse_locals
    /\ input = <<>>
    /\ output = DefaultRes
    /\ frame = NoFrame
    /\ inserted = None
    /\ stdout = <<>>
    /\ raw_mode = FALSE

\* A variant of call_parse in which the stack of the previous result is kept.
call_parse_keeping_stack(text, from) ==
    /\ pc' = "parse"
    /\ caller' = from
    /\ inp' = text
    /\ todo' = split_whitespace(text)
    /\ visited' = <<>>
    /\ loc' = [parse_locals EXCEPT !.stack = output.stack]

\* The entry of parse(text) from `from`: the locals are fresh and the tokens are
\* those of text.
call_parse(text, from) ==
    /\ pc' = "parse"
    /\ caller' = from
    /\ inp' = text
    /\ todo' = split_whitespace(text)
    /\ visited' = <<>>
    /\ loc' = parse_locals

\* The process ends with the given status.
exit_with(s) ==
    /\ pc' = "exit"
    /\ status' = s

\* ------------------------------------------------------------------ main

\* main, lines 138-140: the arguments joined are not empty; parse them.
MainOneShot ==
    /\ pc = "main"
    /\ join(argv) # <<>>
    /\ call_parse(join(argv), "main")
    /\ UNCHANGED <<argv, overflow_checks, status, input, output, frame, inserted,
                   stdout, raw_mode>>

\* main, lines 144-157: no arguments; raw mode on, the terminal and the state S
\* made, and run_app entered.
MainInteractive ==
    /\ pc = "main"
    /\ join(argv) = <<>>
    /\ raw_mode' = TRUE
    /\ input' = <<>>
    /\ output' = DefaultRes
    /\ pc' = "draw"
    /\ UNCHANGED <<argv, overflow_checks, status, caller, inp, todo, visited, loc,
                   frame, inserted, stdout>>

\* main, line 144: enable_raw_mode()? fails.
MainRawModeFails ==
    /\ pc = "main"
    /\ join(argv) = <<>>
    /\ exit_with("err")
    /\ UNCHANGED <<argv, overflow_checks, caller, inp, todo, visited, loc, input,
                   output, frame, inserted, stdout, raw_mode>>

\* main, lines 148-152: Terminal::with_options(..)? fails after raw mode is on.
MainTerminalFails ==
    /\ pc = "main"
    /\ join(argv) = <<>>
    /\ raw_mode' = TRUE
    /\ exit_with("err")
    /\ UNCHANGED <<argv, overflow_checks, caller, inp, todo, visited, loc, input,
                   output, frame, inserted, stdout>>

\* main, line 161: run_app returned Ok; raw mode off and the process ends.
MainRestore ==
    /\ pc = "restore"
    /\ raw_mode' = FALSE
    /\ exit_with("ok")
    /\ UNCHANGED <<argv, overflow_checks, caller, inp, todo, visited, loc, input,
                   output, frame, inserted, stdout>>

\* ----------------------------------------------------------------- parse

\* parse, lines 55-123: one iteration of the loop. A panic ends the process
\* with the locals as the fault left them.
ParseStep ==
    /\ pc = "parse"
    /\ todo # <<>>
    /\ LET x == Head(todo)
           r == step_token(loc, x, overflow_checks)
       IN /\ loc' = r
          /\ visited' = Append(visited, x)
          /\ todo' = Tail(todo)
          /\ IF r.fault
             THEN exit_with("panic")
             ELSE UNCHANGED <<pc, status>>
    /\ UNCHANGED <<argv, overflow_checks, caller, inp, input, output, frame,
                   inserted, stdout, raw_mode>>

\* parse, lines 125-129, returning to main, lines 140-141: the rendering of the
\* result is printed and the process ends successfully.
ParseReturnMain ==
    /\ pc = "parse"
    /\ todo = <<>>
    /\ caller = "main"
    /\ stdout' = Append(stdout, render(make_res(loc)))
    /\ exit_with("ok")
    /\ UNCHANGED <<argv, overflow_checks, caller, inp, todo, visited, loc, input,
                   output, frame, inserted, raw_mode>>

\* parse, lines 125-129, returning to run_app, line 192: s.output = parse(..).
ParseReturnApp ==
    /\ pc = "parse"
    /\ todo = <<>>
    /\ caller = "run_app"
    /\ output' = make_res(loc)
    /\ pc' = "draw"
    /\ UNCHANGED <<argv, overflow_checks, status, caller, inp, todo, visited, loc,
                   input, frame, inserted, stdout, raw_mode>>

\* --------------------------------------------------------------- run_app

\* ui: the error line (when there is an error), the output line, the input line.
ui(s_input, s_output) ==
    [err |-> s_output.err, out |-> render(s_output), input |-> s_input]

\* A variant of commit_line that renders the result of the buffer once reset.
commit_line_after_reset(s_output) == render(DefaultRes)

\* The line a commit prints above the viewport.
commit_line(s_output) == render(s_output)

\* Input::handle_event on a character key: the character goes into the buffer.
insert_char(value, c) == Append(value, c)

\* Input::handle_event on Backspace: the last character leaves the buffer.
delete_prev_char(value) == SubSeq(value, 1, Len(value) - 1)

\* run_app, line 168: term.draw(|frame| ui(frame, &s)).
Draw ==
    /\ pc = "draw"
    /\ frame' = ui(input, output)
    /\ pc' = "read"
    /\ UNCHANGED <<argv, overflow_checks, status, caller, inp, todo, visited, loc,
                   input, output, inserted, stdout, raw_mode>>

\* run_app, line 168: term.draw(..)? fails; run_app and main return the error.
DrawFails ==
    /\ pc = "draw"
    /\ exit_with("err")
    /\ UNCHANGED <<argv, overflow_checks, caller, inp, todo, visited, loc, input,
                   output, frame, inserted, stdout, raw_mode>>

\* run_app, line 170: crossterm::event::read()? fails.
ReadFails ==
    /\ pc = "read"
    /\ exit_with("err")
    /\ UNCHANGED <<argv, overflow_checks, caller, inp, todo, visited, loc, input,
                   output, frame, inserted, stdout, raw_mode>>

\* run_app, lines 172-174: Ctrl-D returns Ok(()).
KeyCtrlD ==
    /\ pc = "read"
    /\ pc' = "restore"
    /\ UNCHANGED <<argv, overflow_checks, status, caller, inp, todo, visited, loc,
                   input, output, frame, inserted, stdout, raw_mode>>

\* run_app, lines 175-179 and 192: Enter prints the rendering of s.output above
\* the viewport, resets the input and evaluates it.
KeyEnter ==
    /\ pc = "read"
    /\ inserted' = Some(commit_line(output))
    /\ input' = <<>>
    /\ call_parse(input', "run_app")
    /\ UNCHANGED <<argv, overflow_checks, status, output, frame, stdout, raw_mode>>

\* run_app, lines 176-178: term.insert_before(..)? fails.
KeyEnterFails ==
    /\ pc = "read"
    /\ exit_with("err")
    /\ UNCHANGED <<argv, overflow_checks, caller, inp, todo, visited, loc, input,
                   output, frame, inserted, stdout, raw_mode>>

\* run_app, lines 181 and 192: a character key edits the input, which is then
\* evaluated.
KeyChar ==
    /\ pc = "read"
    /\ Len(input) < MaxBuf
    /\ \E c \in KeyChars : input' = insert_char(input, c)
    /\ call_parse(input', "run_app")
    /\ UNCHANGED <<argv, overflow_checks, status, output, frame, inserted, stdout,
                   raw_mode>>

\* run_app, lines 181 and 192: Backspace edits the input, which is then evaluated.
KeyBackspace ==
    /\ pc = "read"
    /\ input' = delete_prev_char(input)
    /\ call_parse(input', "run_app")
    /\ UNCHANGED <<argv, overflow_checks, status, output, frame, inserted, stdout,
                   raw_mode>>

\* run_app, lines 189 and 192: any other event changes nothing, and the input
\* is evaluated again.
OtherEvent ==
    /\ pc = "read"
    /\ call_parse(input, "run_app")
    /\ UNCHANGED <<argv, overflow_checks, status, input, output, frame, inserted,
                   stdout, raw_mode>>

Next ==
    \/ MainOneShot
    \/ MainInteractive
    \/ MainRawModeFails
    \/ MainTerminalFails
    \/ MainRestore
    \/ ParseStep
    \/ ParseReturnMain
    \/ ParseReturnApp
    \/ Draw
    \/ DrawFails
    \/ ReadFails
    \/ KeyCtrlD
    \/ KeyEnter
    \/ KeyEnterFails
    \/ KeyChar
    \/ KeyBackspace
    \/ OtherEvent

Spec == Init /\ [][Next]_vars

\* ------------------------------------------------- the pass as a function

\* The loop of parse run from token k on, stopping at a fault.
RECURSIVE eval_from(_, _, _, _)
eval_from(r, tokens, k, checks) ==
    IF k > Len(tokens) \/ r.fault THEN r
    ELSE eval_from(step_token(r, tokens[k], checks), tokens, k + 1, checks)

\* parse(text), the whole pass: from an empty stack, no error and Dec.
evaluate(text, checks) ==
    eval_from([stack |-> <<>>, err |-> None, int_format |-> "Dec", fault |-> FALSE],
              split_whitespace(text), 1, checks)

\* ---------------------------------------------------- classes of tokens

\* A token the loop pushes as a hex literal.
is_hex_literal(x) ==
    is_ascii(x) /\ has_0x_prefix(x) /\ from_str_radix(SubSeq(x, 3, Len(x)), 16).ok

\* A token the loop pushes as a literal, hex or decimal.
is_literal(x) ==
    is_hex_literal(x) \/ (is_ascii(x) /\ from_str_radix(x, 10).ok)

\* A token "/<op>" whose suffix resolves in the operator registry.
is_fold_token(x) ==
    /\ is_ascii(x) /\ ~is_literal(x) /\ Len(x) >= 1
    /\ x[1] = "/" /\ operator(Tail(x)) # "none"

\* A token whose first character resolves in the operator registry.
is_binary_token(x) ==
    /\ is_ascii(x) /\ ~is_literal(x) /\ Len(x) >= 1
    /\ operator(<<x[1]>>) # "none"

\* The loop of parse is about to run on a token.
AtToken == pc = "parse" /\ todo # <<>>

\* The pass went on past the token it was at: no panic, the token consumed.
WentOn ==
    /\ pc' = "parse" /\ status' = "running" /\ ~loc'.fault
    /\ todo' = Tail(todo)

\* -------------------------------------------------------------------- C1

\* C1: a fold token "/<op>" with a registered <op>, met on an empty stack, records
\* an error, leaves the stack empty and lets the pass go on to the next token;
\* nothing panics.
C1_FoldOnEmptyStackIsAdvisory ==
    [][(AtToken /\ is_fold_token(Head(todo)) /\ loc.stack = <<>>)
          => (WentOn /\ loc'.err # None /\ loc'.stack = <<>>)]_vars

\* -------------------------------------------------------------------- C2

\* The token divides by zero: "d" as a binary operator with 0 on top of two
\* operands, or "/d" over a stack with a 0 after its first element.
DividesByZero(x, stack) ==
    \/ /\ is_binary_token(x) /\ operator(<<x[1]>>) = "div"
       /\ Len(stack) >= 2 /\ stack[Len(stack)] = 0
    \/ /\ is_fold_token(x) /\ operator(Tail(x)) = "div"
       /\ \E k \in 2..Len(stack) : stack[k] = 0

\* C2: a division by zero, by the binary operator "d" or inside a fold "/d",
\* records an error and lets the pass go on to the next token; the process is not
\* terminated.
C2_DivisionByZeroIsAdvisory ==
    [][(AtToken /\ DividesByZero(Head(todo), loc.stack))
          => (WentOn /\ loc'.err # None)]_vars

\* -------------------------------------------------------------------- C3

\* C3: a binary-operator token met on a stack of fewer than two elements leaves
\* the stack as it was and only records "couldn't parse '<token>'".
C3_BinaryOperatorNeedsTwoOperands ==
    [][(AtToken /\ is_binary_token(Head(todo)) /\ Len(loc.stack) < 2)
          => /\ WentOn
             /\ loc'.stack = loc.stack
             /\ loc'.int_format = loc.int_format
             /\ loc'.err = Some(MsgParse(Head(todo)))]_vars

\* -------------------------------------------------------------------- C4

\* The message the loop records when it runs on token x with locals r; None when
\* the token records none.
error_of(r, x) ==
    IF ~is_ascii(x) \/ is_literal(x) \/ Len(x) < 1 THEN None
    ELSE IF x[1] = "i" THEN (IF r.stack = <<>> THEN Some(MsgIota) ELSE None)
    ELSE IF x[1] = "/" THEN (IF operator(Tail(x)) = "none" THEN Some(MsgFold) ELSE None)
    ELSE IF x[1] = "." THEN None
    ELSE IF operator(<<x[1]>>) = "none" \/ Len(r.stack) < 2 THEN Some(MsgParse(x))
    ELSE None

\* The message of the last token, in input order, that recorded one; `last` when
\* no token from k on records any.
RECURSIVE last_error_from(_, _, _, _, _)
last_error_from(r, tokens, k, last, checks) ==
    IF k > Len(tokens) THEN last
    ELSE LET e == error_of(r, tokens[k])
         IN last_error_from(step_token(r, tokens[k], checks), tokens, k + 1,
                            IF e # None THEN e ELSE last, checks)

last_error(tokens) ==
    last_error_from([stack |-> <<>>, err |-> None, int_format |-> "Dec", fault |-> FALSE],
                    tokens, 1, None, overflow_checks)

\* C4: throughout a pass that has not panicked, and in the result it returns, the
\* error is the message of the last token so far that recorded one, and is absent
\* iff no token recorded one.
C4_LastErrorWins ==
    /\ ~loc.fault => loc.err = last_error(visited)
    /\ pc \in {"draw", "read"} => output.err = last_error(split_whitespace(input))

\* "foo /x 3": two tokens record different messages, then a literal succeeds; the
\* pass is over and the error is the second message.
C4_Witness ==
    /\ pc = "parse" /\ todo = <<>>
    /\ visited = << <<"f", "o", "o">>, <<"/", "x">>, <<"3">> >>
    /\ loc.err = Some(MsgFold)
    /\ loc.stack = <<3>>

\* -------------------------------------------------------------------- C5

\* C5: a pass never stops early: once control has left parse, the loop has run on
\* every token of the input, in order, and parse returned (nothing panicked).
C5_NeverHaltsEarly ==
    pc # "parse" => (visited = split_whitespace(inp) /\ status # "panic")

\* -------------------------------------------------------------------- C6

\* C6: the one line a one-shot run prints is the error text when the result has
\* an error, and the rendered stack only when it has none.
C6_OneShotPrintsError ==
    (pc = "exit" /\ status = "ok" /\ caller = "main" /\ stdout # <<>>)
        => stdout = << IF loc.err # None THEN loc.err[1] ELSE render(make_res(loc)) >>

\* -------------------------------------------------------------------- C7

\* The format the last format-affecting token among tokens[1..k] asks for: Hex
\* for a hex literal or ".h", Dec for ".d", and Dec when there is none.
RECURSIVE last_format_from(_, _)
last_format_from(tokens, k) ==
    IF k = 0 THEN "Dec"
    ELSE IF is_hex_literal(tokens[k]) \/ tokens[k] = <<".", "h">> THEN "Hex"
    ELSE IF tokens[k] = <<".", "d">> THEN "Dec"
    ELSE last_format_from(tokens, k - 1)

last_format(tokens) == last_format_from(tokens, Len(tokens))

\* C7: the format of a pass, and of the result it returns, is the one the last
\* format-affecting token visited asks for; no other token changes it.
C7_FormatIsLastDirective ==
    /\ loc.int_format = last_format(visited)
    /\ pc \in {"draw", "read"} => output.int_format = last_format(split_whitespace(input))

\* "0x7f .d .x": a hex literal, then ".d", then a directive that does nothing; the
\* pass is over in Dec.
C7_Witness ==
    /\ pc = "parse" /\ todo = <<>>
    /\ visited = << <<"0", "x", "7", "f">>, <<".", "d">>, <<".", "x">> >>
    /\ loc.int_format = "Dec"
    /\ loc.stack = <<I64_MAX>>

\* -------------------------------------------------------------------- C8

\* What ui shows of parse(text) evaluated afresh.
shown_of(text) ==
    LET e == evaluate(text, overflow_checks)
    IN [err |-> e.err, out |-> render(make_res(e)), input |-> text]

\* C8: whenever the loop draws, and while the frame drawn stands, the result shown
\* is that of parse applied afresh to the current input buffer, which did not
\* panic; nothing of earlier evaluations is in it.
C8_ShownIsFreshEvaluation ==
    /\ pc \in {"draw", "read"} =>
          /\ ~evaluate(input, overflow_checks).fault
          /\ output = make_res(evaluate(input, overflow_checks))
    /\ pc = "read" => frame = shown_of(input)

\* After "33" was committed and other keys pressed, the buffer is "3 p": the frame
\* shows the error of "p" and an empty stack.
C8_Witness ==
    /\ pc = "read"
    /\ inserted = Some(<<"3", "3", " ">>)
    /\ input = <<"3", " ", "p">>
    /\ frame.err = Some(MsgParse(<<"p">>))
    /\ frame.out = <<>>

\* -------------------------------------------------------------------- C9

\* C9: Enter prints the rendering of the evaluation of the buffer as it is before
\* the commit and empties the buffer; a draw of the empty buffer shows an empty
\* stack and no error.
C9_CommitOrdering ==
    [][/\ KeyEnter =>
            /\ inserted' = Some(render(make_res(evaluate(input, overflow_checks))))
            /\ input' = <<>>
       /\ (Draw /\ input = <<>>) => frame' = [err |-> None, out |-> <<>>, input |-> <<>>]
      ]_vars

\* "3 3" was committed: its line is above the viewport, the buffer is empty and
\* the frame drawn since shows nothing.
C9_Witness ==
    /\ pc = "read"
    /\ inserted = Some(<<"3", " ", "3", " ">>)
    /\ input = <<>>
    /\ frame = [err |-> None, out |-> <<>>, input |-> <<>>]

\* ------------------------------------------------------------------- C10

\* C10: a fold token with a registered operator, met on a stack of one element
\* or more, leaves exactly one element, the left fold of the stack from the
\* bottom up, and changes neither the error nor the format.
C10_FoldLeavesLeftFold ==
    [][(AtToken /\ is_fold_token(Head(todo)) /\ Len(loc.stack) >= 1)
          => LET x == Head(todo)
                 folded == reduce_from(operator(Tail(x)), loc.stack[1], loc.stack, 2,
                                       overflow_checks)
             IN /\ WentOn
                /\ Len(loc'.stack) = 1
                /\ folded.ok => loc'.stack[1] = folded.val
                /\ loc'.err = loc.err
                /\ loc'.int_format = loc.int_format]_vars

\* ------------------------------------------------------------------- C11

\* A token whose first character is "i".
is_iota_token(x) ==
    is_ascii(x) /\ ~is_literal(x) /\ Len(x) >= 1 /\ x[1] = "i"

\* C11: an iota token on a non-empty stack replaces the top element count by
\* 1, 2, ..., count (by nothing when count < 1), leaves the elements below and
\* the error as they were; on an empty stack it leaves the stack empty and
\* records "i needs a number".
C11_IotaAppendsRange ==
    [][(AtToken /\ is_iota_token(Head(todo)))
          => /\ WentOn
             /\ IF loc.stack = <<>>
                THEN loc'.stack = <<>> /\ loc'.err = Some(MsgIota)
                ELSE LET count == loc.stack[Len(loc.stack)]
                         below == SubSeq(loc.stack, 1, Len(loc.stack) - 1)
                     IN /\ loc'.stack =
                              below \o [k \in 1..(IF count < 1 THEN 0 ELSE count) |-> k]
                        /\ loc'.err = loc.err]_vars

\* ------------------------------------------------------------------- C12

\* The values of the tokens of the sequence that parse as literals, in order.
RECURSIVE literals_of(_)
literals_of(tokens) ==
    IF tokens = <<>> THEN <<>>
    ELSE LET x == Head(tokens)
             here == IF is_hex_literal(x)
                     THEN <<from_str_radix(SubSeq(x, 3, Len(x)), 16).val>>
                     ELSE IF is_literal(x) THEN <<from_str_radix(x, 10).val>>
                     ELSE <<>>
         IN here \o literals_of(Tail(tokens))

\* No token of the sequence applies an operator of the registry, as a binary
\* operator or in a fold.
no_operators(tokens) ==
    \A k \in 1..Len(tokens) : ~is_binary_token(tokens[k]) /\ ~is_fold_token(tokens[k])

\* C12, as stated: over tokens with no operators, the stack is the sequence of
\* the literals parsed so far, in input order.
C12_StackIsLiteralsWithoutOperators ==
    (~loc.fault /\ no_operators(visited)) => loc.stack = literals_of(visited)

\* C12, amended: over tokens with no operators and no iota token, the pass does
\* not panic and the stack is the sequence of the literals parsed so far, in
\* input order; a token that is no literal contributes nothing.
C12_StackIsLiteralsWithoutOperatorsAndIota ==
    (no_operators(visited) /\ \A k \in 1..Len(visited) : ~is_iota_token(visited[k]))
        => (~loc.fault /\ loc.stack = literals_of(visited))

\* "0x7f foo -1": a hex literal, a word that is no literal, a decimal literal;
\* the pass is over with the two literals on the stack.
C12_Witness ==
    /\ pc = "parse" /\ todo = <<>>
    /\ visited = << <<"0", "x", "7", "f">>, <<"f", "o", "o">>, <<"-", "1">> >>
    /\ loc.stack = <<I64_MAX, -1>>

\* ------------------------------------------------------------------- C13

\* C13: a run with a non-empty joined argument string ends successfully, with
\* exactly one line printed and without raw mode ever enabled.
C13_OneShotAlwaysSucceeds ==
    (pc = "exit" /\ join(argv) # <<>>)
        => (status = "ok" /\ Len(stdout) = 1 /\ ~raw_mode /\ frame = NoFrame)

\* ------------------------------------------------------------------- C14

\* The token holds a non-ASCII character.
has_non_ascii(x) == \E k \in 1..Len(x) : x[k] = NonAsciiChar

\* C14: a token with a non-ASCII character changes neither the stack, nor the
\* error, nor the format, and the pass goes on to the next token.
C14_NonAsciiTokenSkipped ==
    [][(AtToken /\ has_non_ascii(Head(todo))) => (WentOn /\ loc' = loc)]_vars

\* "3 foo <non-ASCII>": the non-ASCII token was met with a stack and an error in
\* place, and left both.
C14_Witness ==
    /\ pc = "parse" /\ todo = <<>>
    /\ visited = << <<"3">>, <<"f", "o", "o">>, <<NonAsciiChar>> >>
    /\ loc.stack = <<3>>
    /\ loc.err = Some(MsgParse(<<"f", "o", "o">>))

\* ------------------------------------------------------------------- C15

\* C15: a binary-operator token on a stack [..., b, a] replaces b and a by
\* operator(b, a), the second from the top on the left; the elements below stay
\* and the stack is one shorter.
C15_BinaryOperandOrder ==
    [][(AtToken /\ is_binary_token(Head(todo)) /\ Len(loc.stack) >= 2)
          => LET n == Len(loc.stack)
                 a == loc.stack[n]
                 b == loc.stack[n - 1]
                 res == apply(operator(<<Head(todo)[1]>>), b, a, overflow_checks)
             IN /\ WentOn
                /\ Len(loc'.stack) = n - 1
                /\ SubSeq(loc'.stack, 1, n - 2) = SubSeq(loc.stack, 1, n - 2)
                /\ res.ok => loc'.stack[n - 1] = res.val]_vars

\* ------------------------------------------------------------------- C16

\* The mathematical result of the operator on (l, r) is no signed IntBits-bit
\* integer: an overflowing sum or product, or i64::MIN / -1.
leaves_range(op, l, r) ==
    IF op = "div" THEN l = I64_MIN /\ r = -1
    ELSE LET v == IF op = "add" THEN l + r ELSE l * r
         IN v < I64_MIN \/ v > I64_MAX

\* The token applies an operator to operands whose result leaves the range: as
\* a binary operator on the two top elements, or at some step of a fold.
RECURSIVE fold_leaves_range(_, _, _, _)
fold_leaves_range(op, acc, stack, k) ==
    IF k > Len(stack) THEN FALSE
    ELSE IF leaves_range(op, acc, stack[k]) THEN TRUE
    ELSE IF op = "div" /\ stack[k] = 0 THEN FALSE
    ELSE fold_leaves_range(op, apply(op, acc, stack[k], FALSE).val, stack, k + 1)

LeavesRange(x, stack) ==
    \/ /\ is_binary_token(x) /\ Len(stack) >= 2
       /\ leaves_range(operator(<<x[1]>>), stack[Len(stack) - 1], stack[Len(stack)])
    \/ /\ is_fold_token(x) /\ Len(stack) >= 1
       /\ fold_leaves_range(operator(Tail(x)), stack[1], stack, 2)

\* C16: an operator applied to operands whose mathematical result leaves the
\* signed range (an overflowing + or *, i64::MIN / -1), in a binary-operator or a
\* fold step, leaves values of the signed range on the stack or records an error;
\* the pass goes on and nothing panics.
C16_ArithmeticNeverFaults ==
    [][(AtToken /\ LeavesRange(Head(todo), loc.stack))
          => /\ WentOn
             /\ \A k \in 1..Len(loc'.stack) :
                    loc'.stack[k] >= I64_MIN /\ loc'.stack[k] <= I64_MAX]_vars

\* ------------------------------------------------------------------- C17

\* Evaluating the rendering of the stack in the format gives the stack back,
\* with no error and no panic.
round_trips(stack, int_format) ==
    LET text == render([stack |-> stack, err |-> None, int_format |-> int_format])
        e == evaluate(text, overflow_checks)
    IN ~e.fault /\ e.err = None /\ e.stack = stack

\* A pass is over and about to return its result.
AtReturn == pc = "parse" /\ todo = <<>> /\ ~loc.fault

\* C17, as stated: the stack of every result, rendered in either format and
\* evaluated, comes back as it was, with no error.
C17_RenderEvaluateRoundTrip ==
    AtReturn => (round_trips(loc.stack, "Dec") /\ round_trips(loc.stack, "Hex"))

\* C17, amended: the stack of every result comes back as it was, with no error,
\* from its Decimal rendering, and from its Hexadecimal rendering when none of
\* its values is negative.
C17_RoundTripExceptNegativeHex ==
    AtReturn =>
        /\ round_trips(loc.stack, "Dec")
        /\ (\A k \in 1..Len(loc.stack) : loc.stack[k] >= 0) => round_trips(loc.stack, "Hex")

\* "3 0x7f 0": a result in Hex with no negative value; its rendering
\* "0x3 0x7f 0x0 " evaluates to the same stack.
C17_Witness ==
    /\ AtReturn
    /\ visited = << <<"3">>, <<"0", "x", "7", "f">>, <<"0">> >>
    /\ loc.int_format = "Hex"
    /\ render(make_res(loc)) = <<"0", "x", "3", " ", "0", "x", "7", "f", " ", "0", "x", "0", " ">>
    /\ round_trips(loc.stack, "Hex")

\* ------------------------------------------------------------------- C18

\* C18: when an interactive session ends, from run_app (Ctrl-D, a failed draw,
\* read or insert) or from a panic of parse under it, raw mode is off once the
\* process has finished.
C18_RawModeRestored ==
    [][(join(argv) = <<>> /\ pc \in {"draw", "read", "parse", "restore"} /\ pc' = "exit")
          => ~raw_mode']_vars

====
